---- MODULE Spec2Model ----
(***************************************************************************)
(* A model of the library catalogue: Book / EBook / AudioBook and Member   *)
(* records (book.py, member.py), the Library and MemberManager stores with *)
(* their JSON backing files (library.py, member_manager.py), the CLI flows *)
(* of main.py and the HTTP handlers of api.py.                             *)
(*                                                                         *)
(* Python strings that are keys are sequences of one-character strings, so *)
(* that str.strip() is computed and not assumed.  A Python object held in  *)
(* a list is the record at that position of the sequence; a reference to   *)
(* it is its position, and None is position 0.  A raised exception is the  *)
(* exc field of an operator's result ("ok" when nothing was raised).       *)
(***************************************************************************)
EXTENDS Integers, Sequences, FiniteSets, TLC

VARIABLES books, libFile, members, memFile, library, book, member, last,
          libTmp, memTmp, pc, item, listed

vars == <<books, libFile, members, memFile, library, book, member, last,
          libTmp, memTmp, pc, item, listed>>

(***************************************************************************)
(* Bounds and input domains.                                               *)
(***************************************************************************)
MaxBooks == 2
MaxMembers == 2

SP == " "

\* isbn values the callers use: two plain ones and one with a leading blank
Isbns == {<<"a">>, <<"b">>, <<SP, "a">>}
\* the same, and one with a trailing blank that no record is stored under
PaddedIsbns == Isbns \cup {<<"a", SP>>}
MemberIds == {<<"m">>, <<"n">>}
PaddedMemberIds == MemberIds \cup {<<SP, "m">>}
NoKey == <<>>

(***************************************************************************)
(* str.strip()                                                             *)
(***************************************************************************)
RECURSIVE lstrip(_)
lstrip(s) == IF s /= <<>> /\ Head(s) = SP THEN lstrip(Tail(s)) ELSE s

RECURSIVE rstrip(_)
rstrip(s) ==
  IF s /= <<>> /\ s[Len(s)] = SP THEN rstrip(SubSeq(s, 1, Len(s) - 1)) ELSE s

strip(s) == rstrip(lstrip(s))

(***************************************************************************)
(* book.py: the dataclasses.  An object is a record with its class name in *)
(* cls; EBook adds file_format and AudioBook adds duration.                *)
(***************************************************************************)
BookFields == {"title", "author", "isbn", "is_borrowed"}
BookRequired == {"title", "author", "isbn"}

ClassFields(c) ==
  CASE c = "EBook" -> BookFields \cup {"file_format"}
    [] c = "AudioBook" -> BookFields \cup {"duration"}
    [] OTHER -> BookFields

FieldDefault(k) ==
  CASE k = "is_borrowed" -> FALSE
    [] k = "file_format" -> "PDF"
    [] k = "duration" -> 0

Book(title, author, isbn) ==
  [cls |-> "Book", title |-> title, author |-> author, isbn |-> isbn,
   is_borrowed |-> FALSE]

EBook(title, author, isbn, file_format) ==
  [cls |-> "EBook", title |-> title, author |-> author, isbn |-> isbn,
   is_borrowed |-> FALSE, file_format |-> file_format]

AudioBook(title, author, isbn, duration) ==
  [cls |-> "AudioBook", title |-> title, author |-> author, isbn |-> isbn,
   is_borrowed |-> FALSE, duration |-> duration]

\* Book.borrow_book without the guard of line 12
Book_borrow_book_unguarded(b) ==
  [exc |-> "ok", book |-> [b EXCEPT !.is_borrowed = TRUE]]

\* Book.borrow_book
Book_borrow_book(b) ==
  IF b.is_borrowed = TRUE
  THEN [exc |-> "AlreadyBorrowed", book |-> b]
  ELSE [exc |-> "ok", book |-> [b EXCEPT !.is_borrowed = TRUE]]

\* Book.return_book
Book_return_book(b) ==
  IF b.is_borrowed = FALSE
  THEN [exc |-> "NotBorrowed", book |-> b]
  ELSE [exc |-> "ok", book |-> [b EXCEPT !.is_borrowed = FALSE]]

\* Book.to_dict without line 29: the class name is not recorded
Book_to_dict_untagged(b) == [k \in DOMAIN b \ {"cls"} |-> b[k]]

\* Book.to_dict: asdict(self) plus the class name under "_cls"
Book_to_dict(b) ==
  [k \in (DOMAIN b \ {"cls"}) \cup {"_cls"} |->
     IF k = "_cls" THEN b.cls ELSE b[k]]

\* C(**data) that leaves every optional field at its default
Construct_ignoring_optional(c, data) ==
  IF ~(DOMAIN data \subseteq ClassFields(c)) \/ ~(BookRequired \subseteq DOMAIN data)
  THEN [exc |-> "TypeError", book |-> [cls |-> "None"]]
  ELSE [exc |-> "ok",
        book |-> [k \in ClassFields(c) \cup {"cls"} |->
                    IF k = "cls" THEN c
                    ELSE IF k \in BookRequired THEN data[k]
                    ELSE FieldDefault(k)]]

\* C(**data) for a dataclass C: TypeError on an unexpected keyword or a
\* missing required field; absent optional fields take their defaults
Construct(c, data) ==
  IF ~(DOMAIN data \subseteq ClassFields(c)) \/ ~(BookRequired \subseteq DOMAIN data)
  THEN [exc |-> "TypeError", book |-> [cls |-> "None"]]
  ELSE [exc |-> "ok",
        book |-> [k \in ClassFields(c) \cup {"cls"} |->
                    IF k = "cls" THEN c
                    ELSE IF k \in DOMAIN data THEN data[k]
                    ELSE FieldDefault(k)]]

\* Book.from_dict: data.pop("_cls", "Book"), then dispatch on the tag.
\* data is the dict after the pop, which is also what the caller's dict
\* has become.
Book_from_dict(d) ==
  LET c == IF "_cls" \in DOMAIN d THEN d["_cls"] ELSE "Book"
      data == [k \in DOMAIN d \ {"_cls"} |-> d[k]]
      r == IF c = "EBook" THEN Construct("EBook", data)
           ELSE IF c = "AudioBook" THEN Construct("AudioBook", data)
           ELSE Construct("Book", data)
  IN [exc |-> r.exc, book |-> r.book, data |-> data]

(***************************************************************************)
(* member.py                                                               *)
(***************************************************************************)
MemberFields == {"name", "member_id", "email", "borrowed_books"}
MemberRequired == {"name", "member_id", "email"}

Member(name, member_id, email) ==
  [name |-> name, member_id |-> member_id, email |-> email,
   borrowed_books |-> <<>>]

\* x in list
In(x, l) == \E i \in 1..Len(l) : l[i] = x

\* list.remove(x) for x in list: drops the first occurrence
ListRemove(l, x) ==
  LET i == CHOOSE j \in 1..Len(l) :
             l[j] = x /\ \A k \in 1..(j - 1) : l[k] /= x
  IN SubSeq(l, 1, i - 1) \o SubSeq(l, i + 1, Len(l))

\* Member.borrow_book without the membership test
Member_borrow_book_unguarded(m, isbn) ==
  [exc |-> "ok", member |-> [m EXCEPT !.borrowed_books = Append(@, isbn)]]

\* Member.borrow_book
Member_borrow_book(m, isbn) ==
  IF In(isbn, m.borrowed_books)
  THEN [exc |-> "DuplicateBorrow", member |-> m]
  ELSE [exc |-> "ok",
        member |-> [m EXCEPT !.borrowed_books = Append(@, isbn)]]

\* Member.return_book
Member_return_book(m, isbn) ==
  IF ~In(isbn, m.borrowed_books)
  THEN [exc |-> "NotBorrowedByMember", member |-> m]
  ELSE [exc |-> "ok",
        member |-> [m EXCEPT !.borrowed_books = ListRemove(@, isbn)]]

\* Member.to_dict: asdict(self)
Member_to_dict(m) == [k \in DOMAIN m |-> m[k]]

\* Member.from_dict: copies the dict, defaults borrowed_books, Member(**data)
Member_from_dict(d) ==
  LET data == [k \in DOMAIN d \cup {"borrowed_books"} |->
                 IF k \in DOMAIN d THEN d[k] ELSE <<>>]
  IN IF ~(DOMAIN data \subseteq MemberFields) \/ ~(MemberRequired \subseteq DOMAIN data)
     THEN [exc |-> "TypeError", member |-> [name |-> "None"]]
     ELSE [exc |-> "ok", member |-> [k \in MemberFields |-> data[k]]]

(***************************************************************************)
(* Backing files.  A file is absent or holds a JSON array of dicts.        *)
(***************************************************************************)
Absent == [kind |-> "absent", items |-> <<>>]
JsonArray(items) == [kind |-> "array", items |-> items]

(***************************************************************************)
(* library.py: Library.  Every operator takes the instance's books list    *)
(* and the backing file and returns what they are when control is back     *)
(* with the caller.                                                        *)
(***************************************************************************)
\* the try block of load_books: json.loads, the isinstance test and the
\* list comprehension over Book.from_dict
try_load_books(f) ==
  IF f.kind \in {"partial", "invalid"}
  THEN [exc |-> "JSONDecodeError", books |-> <<>>]
  ELSE IF f.kind /= "array" THEN [exc |-> "ValueError", books |-> <<>>]
  ELSE IF \E i \in 1..Len(f.items) : Book_from_dict(f.items[i]).exc /= "ok"
  THEN [exc |-> "TypeError", books |-> <<>>]
  ELSE [exc |-> "ok",
        books |-> [i \in 1..Len(f.items) |-> Book_from_dict(f.items[i]).book]]

\* Library.load_books catching json.JSONDecodeError only
load_books_call_catching_json_only(f) ==
  IF f.kind = "absent" THEN [exc |-> "ok", books |-> <<>>]
  ELSE IF try_load_books(f).exc = "JSONDecodeError"
  THEN [exc |-> "ok", books |-> <<>>]
  ELSE try_load_books(f)

\* Library.load_books as a call: except Exception catches whatever the try
\* block raised; exc is what reaches the caller
load_books_call(f) ==
  IF f.kind = "absent" THEN [exc |-> "ok", books |-> <<>>]
  ELSE IF try_load_books(f).exc /= "ok" THEN [exc |-> "ok", books |-> <<>>]
  ELSE try_load_books(f)

\* Library.load_books: the list it leaves in self.books
load_books(f) == load_books_call(f).books

\* Library.save_books: the file the rename leaves behind
save_books(bs) == JsonArray([i \in 1..Len(bs) |-> Book_to_dict(bs[i])])

\* The two statements of save_books / save_members, one file-system effect
\* at a time, on the pair (primary file, temp file); content is the
\* complete JSON array that json.dumps produced.
\* tmp.write_text under way: the temp file is created or truncated and holds
\* the text up to some point, which is not a JSON document
Truncated(content, k) == [kind |-> "partial", items |-> SubSeq(content.items, 1, k)]

\* tmp.write_text writing the primary file itself
write_text_begin_in_place(f, tmp, content, k) ==
  [file |-> Truncated(content, k), tmp |-> tmp]

write_text_begin(f, tmp, content, k) ==
  [file |-> f, tmp |-> Truncated(content, k)]

\* tmp.write_text returned: the temp file holds the whole text
write_text_end(f, tmp, content) == [file |-> f, tmp |-> content]

\* tmp.replace(self._data_path): the rename
replace(f, tmp) == [file |-> tmp, tmp |-> Absent]

\* any(b.isbn == isbn for b in self.books)
HasIsbn(bs, isbn) == \E i \in 1..Len(bs) : bs[i].isbn = isbn

\* position of the first book with this isbn, compared verbatim; 0 if none
FirstIsbn(bs, isbn) ==
  IF HasIsbn(bs, isbn)
  THEN CHOOSE i \in 1..Len(bs) :
         bs[i].isbn = isbn /\ \A k \in 1..(i - 1) : bs[k].isbn /= isbn
  ELSE 0

RemoveAt(l, i) == SubSeq(l, 1, i - 1) \o SubSeq(l, i + 1, Len(l))

\* Library.add_book without the duplicate check
add_book_unchecked(bs, f, b) ==
  [exc |-> "ok", books |-> Append(bs, b), file |-> save_books(Append(bs, b))]

\* Library.add_book checking for a duplicate only after the append
add_book_late_check(bs, f, b) ==
  IF HasIsbn(bs, b.isbn)
  THEN [exc |-> "DuplicateKey", books |-> Append(bs, b), file |-> f]
  ELSE [exc |-> "ok", books |-> Append(bs, b),
        file |-> save_books(Append(bs, b))]

\* Library.add_book
add_book(bs, f, b) ==
  IF HasIsbn(bs, b.isbn)
  THEN [exc |-> "DuplicateKey", books |-> bs, file |-> f]
  ELSE [exc |-> "ok", books |-> Append(bs, b),
        file |-> save_books(Append(bs, b))]

\* Library.fetch_book_from_api is the metadata-lookup collaborator: it
\* answers None or a dict with the title, the author and the isbn asked for
NoData == [found |-> FALSE]
Fetched(isbn) ==
  {NoData, [found |-> TRUE, title |-> "t", author |-> "x", isbn |-> isbn]}

\* Library.add_book_from_isbn, given what fetch_book_from_api answered
add_book_from_isbn(bs, f, isbn, book_data) ==
  IF HasIsbn(bs, isbn)
  THEN [exc |-> "DuplicateKey", ret |-> "None", books |-> bs, file |-> f]
  ELSE IF ~book_data.found
  THEN [exc |-> "NotInOpenLibrary", ret |-> "None", books |-> bs, file |-> f]
  ELSE LET b == Book(book_data.title, book_data.author, book_data.isbn)
       IN [exc |-> "ok", ret |-> "True", books |-> Append(bs, b),
           file |-> save_books(Append(bs, b))]

\* Library.remove_book
remove_book(bs, f, isbn) ==
  LET i == FirstIsbn(bs, isbn)
  IN IF i = 0
     THEN [exc |-> "NotFound", books |-> bs, file |-> f]
     ELSE [exc |-> "ok", books |-> RemoveAt(bs, i),
           file |-> save_books(RemoveAt(bs, i))]

\* Library.find_book: strips the argument, then compares verbatim
find_book(bs, isbn) == FirstIsbn(bs, strip(isbn))

\* Library.list_books: a new list of the same objects
list_books(bs) == [i \in 1..Len(bs) |-> bs[i]]

\* Library.list_books returning self.books itself
list_books_result_returning_self(bs) == [alias |-> TRUE, items |-> bs]

\* what the caller of list_books holds: the items, and whether the list is
\* the store's own list object (alias) or another one
list_books_result(bs) == [alias |-> FALSE, items |-> list_books(bs)]

(***************************************************************************)
(* member_manager.py: MemberManager                                        *)
(***************************************************************************)
\* the try block of load_members
try_load_members(f) ==
  IF f.kind \in {"partial", "invalid"}
  THEN [exc |-> "JSONDecodeError", members |-> <<>>]
  ELSE IF f.kind /= "array" THEN [exc |-> "ValueError", members |-> <<>>]
  ELSE IF \E i \in 1..Len(f.items) : Member_from_dict(f.items[i]).exc /= "ok"
  THEN [exc |-> "TypeError", members |-> <<>>]
  ELSE [exc |-> "ok",
        members |-> [i \in 1..Len(f.items) |->
                       Member_from_dict(f.items[i]).member]]

\* MemberManager.load_members as a call
load_members_call(f) ==
  IF f.kind = "absent" THEN [exc |-> "ok", members |-> <<>>]
  ELSE IF try_load_members(f).exc /= "ok" THEN [exc |-> "ok", members |-> <<>>]
  ELSE try_load_members(f)

\* MemberManager.load_members: the list it leaves in self.members
load_members(f) == load_members_call(f).members

\* MemberManager.save_members writing every member without its loans
save_members_without_loans(ms) ==
  JsonArray([i \in 1..Len(ms) |->
               Member_to_dict([ms[i] EXCEPT !.borrowed_books = <<>>])])

\* MemberManager.save_members
save_members(ms) == JsonArray([i \in 1..Len(ms) |-> Member_to_dict(ms[i])])

HasMemberId(ms, member_id) == \E i \in 1..Len(ms) : ms[i].member_id = member_id

FirstMemberId(ms, member_id) ==
  IF HasMemberId(ms, member_id)
  THEN CHOOSE i \in 1..Len(ms) :
         ms[i].member_id = member_id
         /\ \A k \in 1..(i - 1) : ms[k].member_id /= member_id
  ELSE 0

\* MemberManager.add_member
add_member(ms, f, m) ==
  IF HasMemberId(ms, m.member_id)
  THEN [exc |-> "DuplicateKey", members |-> ms, file |-> f]
  ELSE [exc |-> "ok", members |-> Append(ms, m),
        file |-> save_members(Append(ms, m))]

\* MemberManager.remove_member
remove_member(ms, f, member_id) ==
  LET i == FirstMemberId(ms, member_id)
  IN IF i = 0
     THEN [exc |-> "NotFound", members |-> ms, file |-> f]
     ELSE [exc |-> "ok", members |-> RemoveAt(ms, i),
           file |-> save_members(RemoveAt(ms, i))]

\* MemberManager.find_member: compares the argument as given
find_member(ms, member_id) == FirstMemberId(ms, member_id)

\* MemberManager.list_members
list_members(ms) == [i \in 1..Len(ms) |-> ms[i]]

\* what the caller of list_members holds
list_members_result(ms) == [alias |-> FALSE, items |-> list_members(ms)]

(***************************************************************************)
(* main.py: the CLI flows.  Each flow strips what the user typed, catches  *)
(* ValueError and prints it; exc is what was printed ("ok" on success).    *)
(***************************************************************************)
\* remove_book_flow
remove_book_flow(bs, lf, isbn_in) == remove_book(bs, lf, strip(isbn_in))

\* borrow_book_flow with lines 202 and 203 swapped: the member first
borrow_book_flow_member_first(bs, lf, ms, mf, member_id_in, isbn_in) ==
  LET member_id == strip(member_id_in)
      isbn == strip(isbn_in)
      j == find_member(ms, member_id)
      i == find_book(bs, isbn)
      same == [books |-> bs, libFile |-> lf, members |-> ms, memFile |-> mf]
  IN IF j = 0 THEN [exc |-> "MemberNotFound"] @@ same
     ELSE IF i = 0 THEN [exc |-> "BookNotFound"] @@ same
     ELSE LET rm == Member_borrow_book(ms[j], isbn)
              ms1 == [ms EXCEPT ![j] = rm.member]
              rb == Book_borrow_book(bs[i])
              bs1 == [bs EXCEPT ![i] = rb.book]
          IN IF rm.exc /= "ok" THEN [exc |-> rm.exc] @@ same
             ELSE IF rb.exc /= "ok"
             THEN [exc |-> rb.exc, books |-> bs, libFile |-> lf,
                   members |-> ms1, memFile |-> mf]
             ELSE [exc |-> "ok", books |-> bs1, libFile |-> save_books(bs1),
                   members |-> ms1, memFile |-> save_members(ms1)]

\* borrow_book_flow undoing the book's flag when the member refuses
borrow_book_flow_rollback(bs, lf, ms, mf, member_id_in, isbn_in) ==
  LET member_id == strip(member_id_in)
      isbn == strip(isbn_in)
      j == find_member(ms, member_id)
      i == find_book(bs, isbn)
      same == [books |-> bs, libFile |-> lf, members |-> ms, memFile |-> mf]
  IN IF j = 0 THEN [exc |-> "MemberNotFound"] @@ same
     ELSE IF i = 0 THEN [exc |-> "BookNotFound"] @@ same
     ELSE LET rb == Book_borrow_book(bs[i])
              bs1 == [bs EXCEPT ![i] = rb.book]
              rm == Member_borrow_book(ms[j], isbn)
              ms1 == [ms EXCEPT ![j] = rm.member]
          IN IF rb.exc /= "ok" THEN [exc |-> rb.exc] @@ same
             ELSE IF rm.exc /= "ok" THEN [exc |-> rm.exc] @@ same
             ELSE [exc |-> "ok", books |-> bs1, libFile |-> save_books(bs1),
                   members |-> ms1, memFile |-> save_members(ms1)]

\* borrow_book_flow
borrow_book_flow(bs, lf, ms, mf, member_id_in, isbn_in) ==
  LET member_id == strip(member_id_in)
      isbn == strip(isbn_in)
      j == find_member(ms, member_id)
      i == find_book(bs, isbn)
      same == [books |-> bs, libFile |-> lf, members |-> ms, memFile |-> mf]
  IN IF j = 0 THEN [exc |-> "MemberNotFound"] @@ same
     ELSE IF i = 0 THEN [exc |-> "BookNotFound"] @@ same
     ELSE LET rb == Book_borrow_book(bs[i])
              bs1 == [bs EXCEPT ![i] = rb.book]
              rm == Member_borrow_book(ms[j], isbn)
              ms1 == [ms EXCEPT ![j] = rm.member]
          IN IF rb.exc /= "ok" THEN [exc |-> rb.exc] @@ same
             ELSE IF rm.exc /= "ok"
             THEN [exc |-> rm.exc, books |-> bs1, libFile |-> lf,
                   members |-> ms, memFile |-> mf]
             ELSE [exc |-> "ok", books |-> bs1, libFile |-> save_books(bs1),
                   members |-> ms1, memFile |-> save_members(ms1)]

\* return_book_flow testing the book before the member
return_book_flow_book_checked_first(bs, lf, ms, mf, member_id_in, isbn_in) ==
  LET member_id == strip(member_id_in)
      isbn == strip(isbn_in)
      j == find_member(ms, member_id)
      i == find_book(bs, isbn)
      same == [books |-> bs, libFile |-> lf, members |-> ms, memFile |-> mf]
  IN IF i = 0 THEN [exc |-> "BookNotFound"] @@ same
     ELSE IF j = 0 THEN [exc |-> "MemberNotFound"] @@ same
     ELSE LET rb == Book_return_book(bs[i])
              bs1 == [bs EXCEPT ![i] = rb.book]
              rm == Member_return_book(ms[j], isbn)
              ms1 == [ms EXCEPT ![j] = rm.member]
          IN IF rb.exc /= "ok" THEN [exc |-> rb.exc] @@ same
             ELSE IF rm.exc /= "ok"
             THEN [exc |-> rm.exc, books |-> bs1, libFile |-> lf,
                   members |-> ms, memFile |-> mf]
             ELSE [exc |-> "ok", books |-> bs1, libFile |-> save_books(bs1),
                   members |-> ms1, memFile |-> save_members(ms1)]

\* return_book_flow without the lib.save_books() of line 230
return_book_flow_no_save_books(bs, lf, ms, mf, member_id_in, isbn_in) ==
  LET member_id == strip(member_id_in)
      isbn == strip(isbn_in)
      j == find_member(ms, member_id)
      i == find_book(bs, isbn)
      same == [books |-> bs, libFile |-> lf, members |-> ms, memFile |-> mf]
  IN IF j = 0 THEN [exc |-> "MemberNotFound"] @@ same
     ELSE IF i = 0 THEN [exc |-> "BookNotFound"] @@ same
     ELSE LET rb == Book_return_book(bs[i])
              bs1 == [bs EXCEPT ![i] = rb.book]
              rm == Member_return_book(ms[j], isbn)
              ms1 == [ms EXCEPT ![j] = rm.member]
          IN IF rb.exc /= "ok" THEN [exc |-> rb.exc] @@ same
             ELSE IF rm.exc /= "ok"
             THEN [exc |-> rm.exc, books |-> bs1, libFile |-> lf,
                   members |-> ms, memFile |-> mf]
             ELSE [exc |-> "ok", books |-> bs1, libFile |-> lf,
                   members |-> ms1, memFile |-> save_members(ms1)]

\* return_book_flow
return_book_flow(bs, lf, ms, mf, member_id_in, isbn_in) ==
  LET member_id == strip(member_id_in)
      isbn == strip(isbn_in)
      j == find_member(ms, member_id)
      i == find_book(bs, isbn)
      same == [books |-> bs, libFile |-> lf, members |-> ms, memFile |-> mf]
  IN IF j = 0 THEN [exc |-> "MemberNotFound"] @@ same
     ELSE IF i = 0 THEN [exc |-> "BookNotFound"] @@ same
     ELSE LET rb == Book_return_book(bs[i])
              bs1 == [bs EXCEPT ![i] = rb.book]
              rm == Member_return_book(ms[j], isbn)
              ms1 == [ms EXCEPT ![j] = rm.member]
          IN IF rb.exc /= "ok" THEN [exc |-> rb.exc] @@ same
             ELSE IF rm.exc /= "ok"
             THEN [exc |-> rm.exc, books |-> bs1, libFile |-> lf,
                   members |-> ms, memFile |-> mf]
             ELSE [exc |-> "ok", books |-> bs1, libFile |-> save_books(bs1),
                   members |-> ms1, memFile |-> save_members(ms1)]

(***************************************************************************)
(* api.py: the handlers, on the module's own Library instance.  exc is the *)
(* HTTP status of the response.                                            *)
(***************************************************************************)
\* delete_book
delete_book(bs, lf, isbn) ==
  LET i == find_book(bs, isbn)
      r == remove_book(bs, lf, isbn)
  IN IF i = 0 THEN [exc |-> "404", books |-> bs, file |-> lf]
     ELSE IF bs[i].is_borrowed = TRUE
     THEN [exc |-> "400 borrowed", books |-> bs, file |-> lf]
     ELSE IF r.exc /= "ok" THEN [exc |-> "400", books |-> r.books, file |-> r.file]
     ELSE [exc |-> "200", books |-> r.books, file |-> r.file]

\* get_book
get_book(bs, isbn) == IF find_book(bs, isbn) = 0 THEN "404" ELSE "200"

\* add_book (POST /books): AddBookRequest strips the isbn and rejects an
\* empty one, then the handler adds from the stripped isbn
api_add_book(bs, lf, isbn_in, book_data) ==
  LET isbn == strip(isbn_in)
      r == add_book_from_isbn(bs, lf, isbn, book_data)
  IN IF isbn = <<>> THEN [exc |-> "422", books |-> bs, file |-> lf]
     ELSE IF r.exc = "DuplicateKey"
     THEN [exc |-> "409", books |-> r.books, file |-> r.file]
     ELSE IF r.exc = "NotInOpenLibrary"
     THEN [exc |-> "404", books |-> r.books, file |-> r.file]
     ELSE IF find_book(r.books, isbn) = 0
     THEN [exc |-> "500", books |-> r.books, file |-> r.file]
     ELSE [exc |-> "200", books |-> r.books, file |-> r.file]

(***************************************************************************)
(* Inputs                                                                  *)
(***************************************************************************)
\* Book objects handed to Library.add_book in the store-level runs
NewBooks ==
  {Book("t", "x", <<"a">>), EBook("u", "x", <<"a">>, "EPUB"),
   AudioBook("t", "x", <<"b">>, 5), Book("t", "x", <<SP, "a">>)}

\* Member objects handed to MemberManager.add_member in the store-level runs
NewMembers ==
  {Member("p", <<"m">>, "e"), Member("q", <<"m">>, "e"),
   Member("p", <<"n">>, "e")}

\* the books, the members and what is typed in the circulation runs
CircBooks == {Book("t", "x", <<"a">>), EBook("u", "x", <<"b">>, "EPUB")}
CircMembers == {Member("p", <<"m">>, "e"), Member("p", <<"n">>, "e")}
CircIsbnInputs == {<<"a">>, <<"b">>, <<SP, "a">>}
CircMemberIdInputs == {<<"m">>, <<"n">>}

NoBook == [cls |-> "None"]
NoMember == [name |-> "None"]

Call(op, isbn, member_id, exc) ==
  [op |-> op, isbn |-> isbn, member_id |-> member_id, exc |-> exc]

stores == <<books, libFile, members, memFile>>
catalog == <<books, libFile>>
membership == <<members, memFile>>
objects == <<book, member>>
\* the temp files and the position inside a save, the dict handed to
\* from_dict, and the list a caller got from list_books / list_members
aux == <<libTmp, memTmp, pc, item, listed>>

NoDict == <<>>
\* where the process is inside save_books / save_members
Idle == [store |-> "none", at |-> "idle"]
At(store, at) == [store |-> store, at |-> at]
NoList == [of |-> "none", alias |-> FALSE, items |-> <<>>]

\* nothing is being saved, deserialized or listed
AuxInit ==
  /\ libTmp = Absent
  /\ memTmp = Absent
  /\ pc = Idle
  /\ item = NoDict
  /\ listed = NoList

(***************************************************************************)
(* The steps: one call of a store method, a CLI flow or an API handler,    *)
(* with its arguments drawn from the given sets.                           *)
(***************************************************************************)
AddBook(Bs) ==
  \E b \in Bs :
    LET r == add_book(books, libFile, b)
    IN /\ Len(r.books) <= MaxBooks
       /\ books' = r.books
       /\ libFile' = r.file
       /\ last' = Call("add_book", b.isbn, NoKey, r.exc)
       /\ UNCHANGED <<aux, membership, library, objects>>

AddBookFromIsbn(Is) ==
  \E isbn \in Is : \E book_data \in Fetched(isbn) :
    LET r == add_book_from_isbn(books, libFile, isbn, book_data)
    IN /\ Len(r.books) <= MaxBooks
       /\ books' = r.books
       /\ libFile' = r.file
       /\ last' = Call("add_book_from_isbn", isbn, NoKey, r.exc)
                    @@ [ret |-> r.ret]
       /\ UNCHANGED <<aux, membership, library, objects>>

RemoveBook(Is) ==
  \E isbn \in Is :
    LET r == remove_book(books, libFile, isbn)
    IN /\ books' = r.books
       /\ libFile' = r.file
       /\ last' = Call("remove_book", isbn, NoKey, r.exc)
       /\ UNCHANGED <<aux, membership, library, objects>>

RemoveBookFlow(Is) ==
  \E isbn_in \in Is :
    LET r == remove_book_flow(books, libFile, isbn_in)
    IN /\ books' = r.books
       /\ libFile' = r.file
       /\ last' = Call("remove_book_flow", isbn_in, NoKey, r.exc)
       /\ UNCHANGED <<aux, membership, library, objects>>

AddMember(Ms) ==
  \E m \in Ms :
    LET r == add_member(members, memFile, m)
    IN /\ Len(r.members) <= MaxMembers
       /\ members' = r.members
       /\ memFile' = r.file
       /\ last' = Call("add_member", NoKey, m.member_id, r.exc)
       /\ UNCHANGED <<aux, catalog, library, objects>>

RemoveMember(Ids) ==
  \E member_id \in Ids :
    LET r == remove_member(members, memFile, member_id)
    IN /\ members' = r.members
       /\ memFile' = r.file
       /\ last' = Call("remove_member", NoKey, member_id, r.exc)
       /\ UNCHANGED <<aux, catalog, library, objects>>

BorrowBookFlow(Ids, Is) ==
  \E member_id_in \in Ids : \E isbn_in \in Is :
    LET r == borrow_book_flow(books, libFile, members, memFile,
                              member_id_in, isbn_in)
    IN /\ books' = r.books
       /\ libFile' = r.libFile
       /\ members' = r.members
       /\ memFile' = r.memFile
       /\ last' = Call("borrow_book_flow", isbn_in, member_id_in, r.exc)
       /\ UNCHANGED <<aux, library, objects>>

ReturnBookFlow(Ids, Is) ==
  \E member_id_in \in Ids : \E isbn_in \in Is :
    LET r == return_book_flow(books, libFile, members, memFile,
                              member_id_in, isbn_in)
    IN /\ books' = r.books
       /\ libFile' = r.libFile
       /\ members' = r.members
       /\ memFile' = r.memFile
       /\ last' = Call("return_book_flow", isbn_in, member_id_in, r.exc)
       /\ UNCHANGED <<aux, library, objects>>

\* run_cli_interface entered again: both stores are constructed anew
RunCliInterface ==
  /\ books' = load_books(libFile)
  /\ members' = load_members(memFile)
  /\ last' = Call("run_cli_interface", NoKey, NoKey, "ok")
  /\ UNCHANGED <<aux, libFile, memFile, library, objects>>

(***************************************************************************)
(* Spec: one CLI session (run_cli_interface) over library.json and         *)
(* members.json: the stores' add and remove and the circulation flows.     *)
(***************************************************************************)
Init ==
  /\ libFile = Absent
  /\ memFile = Absent
  /\ books = load_books(libFile)
  /\ members = load_members(memFile)
  /\ library = <<>>
  /\ book = NoBook
  /\ member = NoMember
  /\ last = Call("init", NoKey, NoKey, "ok")
  /\ AuxInit

Next ==
  \/ AddBook(CircBooks)
  \/ RemoveBook(CircIsbnInputs)
  \/ RemoveBookFlow(CircIsbnInputs)
  \/ AddMember(CircMembers)
  \/ RemoveMember(CircMemberIdInputs)
  \/ BorrowBookFlow(CircMemberIdInputs, CircIsbnInputs)
  \/ ReturnBookFlow(CircMemberIdInputs, CircIsbnInputs)
  \/ RunCliInterface

Spec == Init /\ [][Next]_vars

(***************************************************************************)
(* SpecStore: the two stores on their own, with every kind of record and   *)
(* key: add, add_book_from_isbn, remove and reconstruction from the file.  *)
(***************************************************************************)
NextStore ==
  \/ AddBook(NewBooks)
  \/ AddBookFromIsbn(Isbns)
  \/ RemoveBook(PaddedIsbns)
  \/ AddMember(NewMembers)
  \/ RemoveMember(PaddedMemberIds)
  \/ RunCliInterface

SpecStore == Init /\ [][NextStore]_vars

(***************************************************************************)
(* SpecApi: the api.py process.  Its Library instance is constructed from  *)
(* the library.json that earlier sessions left behind, then the handlers   *)
(* run one at a time.                                                      *)
(***************************************************************************)
Borrowed(b) == [b EXCEPT !.is_borrowed = TRUE]

\* the records a library.json can hold: any record added, and, for the
\* isbns a flow can look up, the same record while it is on loan
StoredBooks == NewBooks \cup {Borrowed(b) : b \in {x \in NewBooks : strip(x.isbn) = x.isbn}}

DistinctIsbns(bs) ==
  \A i, j \in 1..Len(bs) : bs[i].isbn = bs[j].isbn => i = j

StoredBookLists ==
  {bs \in UNION {[1..n -> StoredBooks] : n \in 0..MaxBooks} : DistinctIsbns(bs)}

LibraryFiles == {Absent} \cup {save_books(bs) : bs \in StoredBookLists}

InitApi ==
  /\ libFile \in LibraryFiles
  /\ library = load_books(libFile)
  /\ memFile = Absent
  /\ books = <<>>
  /\ members = <<>>
  /\ book = NoBook
  /\ member = NoMember
  /\ last = Call("init", NoKey, NoKey, "ok")
  /\ AuxInit

ApiAddBook(Is) ==
  \E isbn \in Is : \E book_data \in Fetched(strip(isbn)) :
    LET r == api_add_book(library, libFile, isbn, book_data)
    IN /\ Len(r.books) <= MaxBooks
       /\ library' = r.books
       /\ libFile' = r.file
       /\ last' = Call("api_add_book", isbn, NoKey, r.exc)
       /\ UNCHANGED <<aux, books, membership, objects>>

ApiDeleteBook(Is) ==
  \E isbn \in Is :
    LET r == delete_book(library, libFile, isbn)
    IN /\ library' = r.books
       /\ libFile' = r.file
       /\ last' = Call("delete_book", isbn, NoKey, r.exc)
       /\ UNCHANGED <<aux, books, membership, objects>>

ApiGetBook(Is) ==
  \E isbn \in Is :
    /\ last' = Call("get_book", isbn, NoKey, get_book(library, isbn))
    /\ UNCHANGED <<aux, stores, library, objects>>

NextApi ==
  \/ ApiAddBook(PaddedIsbns)
  \/ ApiDeleteBook(PaddedIsbns)
  \/ ApiGetBook(PaddedIsbns)

SpecApi == InitApi /\ [][NextApi]_vars

(***************************************************************************)
(* SpecRecord: one Book object of any variant and one Member object, with  *)
(* their methods called in any order.                                      *)
(***************************************************************************)
BookObjects == NewBooks \cup {Borrowed(b) : b \in NewBooks}

InitRecord ==
  /\ book \in BookObjects
  /\ member \in NewMembers
  /\ libFile = Absent
  /\ memFile = Absent
  /\ books = <<>>
  /\ members = <<>>
  /\ library = <<>>
  /\ last = Call("init", NoKey, NoKey, "ok")
  /\ AuxInit

BookBorrow ==
  LET r == Book_borrow_book(book)
  IN /\ book' = r.book
     /\ last' = Call("Book.borrow_book", NoKey, NoKey, r.exc)
     /\ UNCHANGED <<aux, stores, library, member>>

BookReturn ==
  LET r == Book_return_book(book)
  IN /\ book' = r.book
     /\ last' = Call("Book.return_book", NoKey, NoKey, r.exc)
     /\ UNCHANGED <<aux, stores, library, member>>

MemberBorrow(Is) ==
  \E isbn \in Is :
    LET r == Member_borrow_book(member, isbn)
    IN /\ member' = r.member
       /\ last' = Call("Member.borrow_book", isbn, NoKey, r.exc)
       /\ UNCHANGED <<aux, stores, library, book>>

MemberReturn(Is) ==
  \E isbn \in Is :
    LET r == Member_return_book(member, isbn)
    IN /\ member' = r.member
       /\ last' = Call("Member.return_book", isbn, NoKey, r.exc)
       /\ UNCHANGED <<aux, stores, library, book>>

NextRecord ==
  \/ BookBorrow
  \/ BookReturn
  \/ MemberBorrow(Isbns)
  \/ MemberReturn(Isbns)

SpecRecord == InitRecord /\ [][NextRecord]_vars

(***************************************************************************)
(* Properties                                                              *)
(***************************************************************************)
DistinctMemberIds(ms) ==
  \A i, j \in 1..Len(ms) : ms[i].member_id = ms[j].member_id => i = j

(***************************************************************************)
(* SpecSave: add and remove on both stores with save_books / save_members  *)
(* taken one file-system effect at a time.  A save can raise OSError at    *)
(* either statement, and the process can die between any two effects and   *)
(* be started again.                                                       *)
(***************************************************************************)
\* The two stores share nothing, so a run works on one of them and leaves
\* the other as constructed.
LibUntouched == books = <<>> /\ libFile = Absent /\ libTmp = Absent
MgrUntouched == members = <<>> /\ memFile = Absent /\ memTmp = Absent

\* add_book up to the call of save_books
AddBookCall(Bs) ==
  \E b \in Bs :
    LET r == add_book(books, libFile, b)
    IN /\ pc = Idle
       /\ MgrUntouched
       /\ Len(r.books) <= MaxBooks
       /\ books' = r.books
       /\ pc' = IF r.exc = "ok" THEN At("lib", "write_text") ELSE Idle
       /\ last' = Call("add_book", b.isbn, NoKey,
                       IF r.exc = "ok" THEN "saving" ELSE r.exc)
       /\ UNCHANGED <<libFile, membership, library, objects, libTmp, memTmp,
                      item, listed>>

\* remove_book up to the call of save_books
RemoveBookCall(Is) ==
  \E isbn \in Is :
    LET r == remove_book(books, libFile, isbn)
    IN /\ pc = Idle
       /\ MgrUntouched
       /\ books' = r.books
       /\ pc' = IF r.exc = "ok" THEN At("lib", "write_text") ELSE Idle
       /\ last' = Call("remove_book", isbn, NoKey,
                       IF r.exc = "ok" THEN "saving" ELSE r.exc)
       /\ UNCHANGED <<libFile, membership, library, objects, libTmp, memTmp,
                      item, listed>>

\* add_member up to the call of save_members
AddMemberCall(Ms) ==
  \E m \in Ms :
    LET r == add_member(members, memFile, m)
    IN /\ pc = Idle
       /\ LibUntouched
       /\ Len(r.members) <= MaxMembers
       /\ members' = r.members
       /\ pc' = IF r.exc = "ok" THEN At("mgr", "write_text") ELSE Idle
       /\ last' = Call("add_member", NoKey, m.member_id,
                       IF r.exc = "ok" THEN "saving" ELSE r.exc)
       /\ UNCHANGED <<memFile, catalog, library, objects, libTmp, memTmp,
                      item, listed>>

\* remove_member up to the call of save_members
RemoveMemberCall(Ids) ==
  \E member_id \in Ids :
    LET r == remove_member(members, memFile, member_id)
    IN /\ pc = Idle
       /\ LibUntouched
       /\ members' = r.members
       /\ pc' = IF r.exc = "ok" THEN At("mgr", "write_text") ELSE Idle
       /\ last' = Call("remove_member", NoKey, member_id,
                       IF r.exc = "ok" THEN "saving" ELSE r.exc)
       /\ UNCHANGED <<memFile, catalog, library, objects, libTmp, memTmp,
                      item, listed>>

\* what the save under way is writing
SaveContent ==
  IF pc.store = "lib" THEN save_books(books) ELSE save_members(members)

\* the files of the store that is saving become r.file and r.tmp
SaveEffect(r) ==
  IF pc.store = "lib"
  THEN libFile' = r.file /\ libTmp' = r.tmp /\ UNCHANGED <<memFile, memTmp>>
  ELSE memFile' = r.file /\ memTmp' = r.tmp /\ UNCHANGED <<libFile, libTmp>>

SaveFiles == IF pc.store = "lib" THEN <<libFile, libTmp>> ELSE <<memFile, memTmp>>

WriteTextBegin ==
  /\ pc.at = "write_text"
  /\ \E k \in 0..Len(SaveContent.items) :
       SaveEffect(write_text_begin(SaveFiles[1], SaveFiles[2], SaveContent, k))
  /\ pc' = At(pc.store, "writing")
  /\ UNCHANGED <<books, members, library, objects, last, item, listed>>

WriteTextEnd ==
  /\ pc.at = "writing"
  /\ SaveEffect(write_text_end(SaveFiles[1], SaveFiles[2], SaveContent))
  /\ pc' = At(pc.store, "replace")
  /\ UNCHANGED <<books, members, library, objects, last, item, listed>>

Replace ==
  /\ pc.at = "replace"
  /\ SaveEffect(replace(SaveFiles[1], SaveFiles[2]))
  /\ pc' = Idle
  /\ last' = [last EXCEPT !.exc = "ok"]
  /\ UNCHANGED <<books, members, library, objects, item, listed>>

\* write_text or replace raises OSError, which add / remove let through
SaveRaises ==
  /\ pc.at \in {"write_text", "writing", "replace"}
  /\ pc' = Idle
  /\ last' = [last EXCEPT !.exc = "OSError"]
  /\ UNCHANGED <<stores, library, objects, libTmp, memTmp, item, listed>>

\* the process dies and a new one constructs both stores from the files
CrashRestart ==
  /\ books' = load_books(libFile)
  /\ members' = load_members(memFile)
  /\ pc' = Idle
  /\ last' = Call("restart", NoKey, NoKey, "ok")
  /\ UNCHANGED <<libFile, memFile, library, objects, libTmp, memTmp, item,
                 listed>>

NextSave ==
  \/ AddBookCall(CircBooks)
  \/ RemoveBookCall(CircIsbnInputs)
  \/ AddMemberCall(CircMembers)
  \/ RemoveMemberCall(CircMemberIdInputs)
  \/ WriteTextBegin
  \/ WriteTextEnd
  \/ Replace
  \/ SaveRaises
  \/ CrashRestart

SpecSave == Init /\ [][NextSave]_vars

(***************************************************************************)
(* SpecRound: sessions of one member over books of the three variants:     *)
(* adds, removes, borrows and returns, and the stores constructed anew     *)
(* from the files.                                                         *)
(***************************************************************************)
RoundBooks ==
  {Book("t", "x", <<"a">>), EBook("u", "x", <<"b">>, "EPUB"),
   AudioBook("t", "x", <<"b">>, 5)}
RoundMembers == {Member("p", <<"m">>, "e")}
RoundIsbnInputs == {<<"a">>, <<"b">>}
RoundMemberIdInputs == {<<"m">>}

NextRound ==
  \/ AddBook(RoundBooks)
  \/ RemoveBook(RoundIsbnInputs)
  \/ AddMember(RoundMembers)
  \/ RemoveMember(RoundMemberIdInputs)
  \/ BorrowBookFlow(RoundMemberIdInputs, RoundIsbnInputs)
  \/ ReturnBookFlow(RoundMemberIdInputs, RoundIsbnInputs)
  \/ RunCliInterface

SpecRound == Init /\ [][NextRound]_vars

(***************************************************************************)
(* SpecLoad: a Library and a MemberManager constructed on files that some  *)
(* other program or an editor may have written.                            *)
(***************************************************************************)
\* a text that json.loads rejects, and a JSON document that is not a list
Invalid == [kind |-> "invalid", items |-> <<>>]
JsonObject == [kind |-> "object", items |-> <<>>]

Without(d, k) == [x \in DOMAIN d \ {k} |-> d[x]]

\* elements of library.json: written by to_dict, without the tag and
\* is_borrowed, with a tag no class has, and without a title
BookItems ==
  {Book_to_dict(Book("t", "x", <<"a">>)),
   Book_to_dict(Borrowed(EBook("u", "x", <<"a">>, "EPUB"))),
   Book_to_dict(AudioBook("t", "x", <<"b">>, 5)),
   Without(Without(Book_to_dict(Book("t", "x", <<"b">>)), "_cls"), "is_borrowed"),
   [Book_to_dict(EBook("u", "x", <<"b">>, "EPUB")) EXCEPT !["_cls"] = "Magazine"],
   Without(Book_to_dict(Book("t", "x", <<"a">>)), "title")}

\* elements of members.json: written by to_dict, with a loan, without
\* borrowed_books, and without an email
MemberItems ==
  {Member_to_dict(Member("p", <<"m">>, "e")),
   Member_to_dict([Member("q", <<"m">>, "e") EXCEPT !.borrowed_books = <<<<"a">>>>]),
   Without(Member_to_dict(Member("p", <<"n">>, "e")), "borrowed_books"),
   Without(Member_to_dict(Member("p", <<"n">>, "e")), "email")}

ArraysOf(Items, n) ==
  {JsonArray(l) : l \in UNION {[1..k -> Items] : k \in 0..n}}

LoadLibFiles == {Absent, Invalid, JsonObject} \cup ArraysOf(BookItems, MaxBooks)
LoadMemFiles == {Absent, Invalid, JsonObject} \cup ArraysOf(MemberItems, MaxMembers)

InitLoad ==
  /\ libFile \in LoadLibFiles
  /\ memFile \in LoadMemFiles
  /\ books = <<>>
  /\ members = <<>>
  /\ library = <<>>
  /\ book = NoBook
  /\ member = NoMember
  /\ last = Call("init", NoKey, NoKey, "ok")
  /\ AuxInit

\* Library(data_file): __post_init__ calls load_books
NewLibrary ==
  LET r == load_books_call(libFile)
  IN /\ books' = r.books
     /\ last' = Call("Library", NoKey, NoKey, r.exc)
     /\ UNCHANGED <<aux, libFile, membership, library, objects>>

\* MemberManager(data_file): __init__ calls load_members
NewMemberManager ==
  LET r == load_members_call(memFile)
  IN /\ members' = r.members
     /\ last' = Call("MemberManager", NoKey, NoKey, r.exc)
     /\ UNCHANGED <<aux, memFile, catalog, library, objects>>

NextLoad ==
  \/ NewLibrary
  \/ NewMemberManager

SpecLoad == InitLoad /\ [][NextLoad]_vars

(***************************************************************************)
(* SpecDict: a Book, a Member and one dict, with to_dict and from_dict of  *)
(* both classes called in any order.  The dict is what a caller holds: the *)
(* result of the last to_dict, or an element read from a file.             *)
(***************************************************************************)
DictBooks ==
  BookObjects \cup
  {EBook("u", "x", <<"b">>, "PDF"), Borrowed(EBook("u", "x", <<"b">>, "PDF")),
   AudioBook("t", "x", <<"b">>, 0), Borrowed(AudioBook("t", "x", <<"b">>, 0))}

DictMembers ==
  {Member("p", <<"m">>, "e"),
   [Member("p", <<"m">>, "e") EXCEPT !.borrowed_books = <<<<"a">>, <<"b">>>>],
   [Member("p", <<"m">>, "e") EXCEPT !.borrowed_books = <<<<"b">>, <<"a">>>>]}

\* dicts of other origin: the elements of SpecLoad, and a dict without a
\* tag that carries a duration
DictItems ==
  BookItems \cup MemberItems \cup
  {Without(Book_to_dict(AudioBook("t", "x", <<"b">>, 5)), "_cls")}

InitDict ==
  /\ book \in DictBooks
  /\ member \in DictMembers
  /\ item \in DictItems
  /\ libFile = Absent
  /\ memFile = Absent
  /\ books = <<>>
  /\ members = <<>>
  /\ library = <<>>
  /\ last = Call("init", NoKey, NoKey, "ok")
  /\ libTmp = Absent
  /\ memTmp = Absent
  /\ pc = Idle
  /\ listed = NoList

\* item = book.to_dict()
BookToDict ==
  /\ item' = Book_to_dict(book)
  /\ last' = Call("Book.to_dict", NoKey, NoKey, "ok")
  /\ UNCHANGED <<stores, library, objects, libTmp, memTmp, pc, listed>>

\* book = Book.from_dict(item): the pop acts on the caller's dict; when
\* the constructor raises, the assignment does not happen
BookFromDict ==
  LET r == Book_from_dict(item)
  IN /\ item' = r.data
     /\ book' = IF r.exc = "ok" THEN r.book ELSE book
     /\ last' = Call("Book.from_dict", NoKey, NoKey, r.exc)
     /\ UNCHANGED <<stores, library, member, libTmp, memTmp, pc, listed>>

\* item = member.to_dict()
MemberToDict ==
  /\ item' = Member_to_dict(member)
  /\ last' = Call("Member.to_dict", NoKey, NoKey, "ok")
  /\ UNCHANGED <<stores, library, objects, libTmp, memTmp, pc, listed>>

\* member = Member.from_dict(item): works on a copy of the dict
MemberFromDict ==
  LET r == Member_from_dict(item)
  IN /\ member' = IF r.exc = "ok" THEN r.member ELSE member
     /\ last' = Call("Member.from_dict", NoKey, NoKey, r.exc)
     /\ UNCHANGED <<stores, library, book, aux>>

NextDict ==
  \/ BookToDict
  \/ BookFromDict
  \/ MemberToDict
  \/ MemberFromDict

SpecDict == InitDict /\ [][NextDict]_vars

(***************************************************************************)
(* SpecList: adds and removes on both stores, list_books / list_members,   *)
(* and a caller that appends to, removes from and reverses the list it was *)
(* given.  A list that is the store's own list object changes the store    *)
(* when the caller changes it.                                             *)
(***************************************************************************)
SnapBooks == {Book("t", "x", <<"a">>), EBook("u", "x", <<"b">>, "EPUB")}
SnapMembers == {Member("p", <<"m">>, "e"), Member("q", <<"n">>, "e")}
SnapIsbnInputs == {<<"a">>, <<"b">>}
SnapMemberIdInputs == {<<"m">>, <<"n">>}

ListBooksCall ==
  LET r == list_books_result(books)
  IN /\ listed' = [of |-> "books", alias |-> r.alias, items |-> r.items]
     /\ last' = Call("list_books", NoKey, NoKey, "ok")
     /\ UNCHANGED <<stores, library, objects, libTmp, memTmp, pc, item>>

ListMembersCall ==
  LET r == list_members_result(members)
  IN /\ listed' = [of |-> "members", alias |-> r.alias, items |-> r.items]
     /\ last' = Call("list_members", NoKey, NoKey, "ok")
     /\ UNCHANGED <<stores, library, objects, libTmp, memTmp, pc, item>>

\* the caller's list becomes l
Mutated(l) ==
  /\ listed' = [listed EXCEPT !.items = l]
  /\ books' = IF listed.alias /\ listed.of = "books" THEN l ELSE books
  /\ members' = IF listed.alias /\ listed.of = "members" THEN l ELSE members
  /\ UNCHANGED <<libFile, memFile, library, objects, libTmp, memTmp, pc, item>>

CallerAppend ==
  /\ listed.of /= "none"
  /\ Len(listed.items) <= MaxBooks
  /\ \E x \in (IF listed.of = "books" THEN SnapBooks ELSE SnapMembers) :
        Mutated(Append(listed.items, x))
  /\ last' = Call("caller.append", NoKey, NoKey, "ok")

CallerRemove ==
  /\ \E i \in 1..Len(listed.items) : Mutated(RemoveAt(listed.items, i))
  /\ last' = Call("caller.remove", NoKey, NoKey, "ok")

CallerReverse ==
  /\ Len(listed.items) >= 2
  /\ Mutated([i \in 1..Len(listed.items) |->
                listed.items[Len(listed.items) + 1 - i]])
  /\ last' = Call("caller.reverse", NoKey, NoKey, "ok")

NextList ==
  \/ AddBook(SnapBooks)
  \/ RemoveBook(SnapIsbnInputs)
  \/ AddMember(SnapMembers)
  \/ RemoveMember(SnapMemberIdInputs)
  \/ ListBooksCall
  \/ ListMembersCall
  \/ CallerAppend
  \/ CallerRemove
  \/ CallerReverse

SpecList == Init /\ [][NextList]_vars

(***************************************************************************)
(* SpecLend: a session on stores that were set up before it, with the      *)
(* borrow and return flows only.                                           *)
(***************************************************************************)
LendBooks == <<Book("t", "x", <<"a">>), EBook("u", "x", <<"b">>, "EPUB")>>
LendMembers == <<Member("p", <<"m">>, "e"), Member("q", <<"n">>, "e")>>

InitLend ==
  /\ libFile = save_books(LendBooks)
  /\ memFile = save_members(LendMembers)
  /\ books = load_books(libFile)
  /\ members = load_members(memFile)
  /\ library = <<>>
  /\ book = NoBook
  /\ member = NoMember
  /\ last = Call("init", NoKey, NoKey, "ok")
  /\ AuxInit

NextLend ==
  \/ BorrowBookFlow(CircMemberIdInputs, CircIsbnInputs)
  \/ ReturnBookFlow(CircMemberIdInputs, CircIsbnInputs)

SpecLend == InitLend /\ [][NextLend]_vars

(***************************************************************************)
(* SpecCrash: the borrow and return flows with their two saves as separate *)
(* steps, in a process that can die between any two steps and be started   *)
(* again.  Each save publishes its file in one step (tmp.replace).         *)
(***************************************************************************)
\* borrow_book_flow up to the call of lib.save_books
BorrowBookFlowCall(Ids, Is) ==
  \E member_id_in \in Ids : \E isbn_in \in Is :
    LET r == borrow_book_flow(books, libFile, members, memFile,
                              member_id_in, isbn_in)
    IN /\ pc = Idle
       /\ books' = r.books
       /\ members' = r.members
       /\ pc' = IF r.exc = "ok" THEN At("flow", "save_books") ELSE Idle
       /\ last' = Call("borrow_book_flow", isbn_in, member_id_in,
                       IF r.exc = "ok" THEN "saving" ELSE r.exc)
       /\ UNCHANGED <<libFile, memFile, library, objects, libTmp, memTmp, item,
                      listed>>

\* return_book_flow up to the call of lib.save_books
ReturnBookFlowCall(Ids, Is) ==
  \E member_id_in \in Ids : \E isbn_in \in Is :
    LET r == return_book_flow(books, libFile, members, memFile,
                              member_id_in, isbn_in)
    IN /\ pc = Idle
       /\ books' = r.books
       /\ members' = r.members
       /\ pc' = IF r.exc = "ok" THEN At("flow", "save_books") ELSE Idle
       /\ last' = Call("return_book_flow", isbn_in, member_id_in,
                       IF r.exc = "ok" THEN "saving" ELSE r.exc)
       /\ UNCHANGED <<libFile, memFile, library, objects, libTmp, memTmp, item,
                      listed>>

\* lib.save_books() of a flow
FlowSaveBooks ==
  /\ pc = At("flow", "save_books")
  /\ libFile' = save_books(books)
  /\ pc' = At("flow", "save_members")
  /\ UNCHANGED <<books, membership, library, objects, last, libTmp, memTmp,
                 item, listed>>

\* mgr.save_members() of a flow
FlowSaveMembers ==
  /\ pc = At("flow", "save_members")
  /\ memFile' = save_members(members)
  /\ pc' = Idle
  /\ last' = [last EXCEPT !.exc = "ok"]
  /\ UNCHANGED <<catalog, members, library, objects, libTmp, memTmp, item,
                 listed>>

NextCrash ==
  \/ BorrowBookFlowCall(CircMemberIdInputs, CircIsbnInputs)
  \/ ReturnBookFlowCall(CircMemberIdInputs, CircIsbnInputs)
  \/ FlowSaveBooks
  \/ FlowSaveMembers
  \/ CrashRestart

SpecCrash == InitLend /\ [][NextCrash]_vars

(***************************************************************************)
(* SpecOpened: sessions on files of any content: both stores are           *)
(* constructed on the files as found, then adds, removes and restarts      *)
(* follow.                                                                 *)
(***************************************************************************)
InitOpened ==
  /\ libFile \in LoadLibFiles
  /\ memFile \in LoadMemFiles
  /\ books = load_books(libFile)
  /\ members = load_members(memFile)
  /\ library = <<>>
  /\ book = NoBook
  /\ member = NoMember
  /\ last = Call("init", NoKey, NoKey, "ok")
  /\ AuxInit

NextOpened ==
  \/ AddBook(SnapBooks)
  \/ RemoveBook(SnapIsbnInputs)
  \/ AddMember(SnapMembers)
  \/ RemoveMember(SnapMemberIdInputs)
  \/ RunCliInterface

SpecOpened == InitOpened /\ [][NextOpened]_vars

(***************************************************************************)
(* SpecShared: the CLI's Library (books) and the API module's library      *)
(* (library) on the same library.json.  Each action is one whole call, so  *)
(* no two calls overlap.                                                   *)
(***************************************************************************)
InitShared ==
  /\ libFile = Absent
  /\ memFile = Absent
  /\ books = load_books(libFile)
  /\ library = load_books(libFile)
  /\ members = load_members(memFile)
  /\ book = NoBook
  /\ member = NoMember
  /\ last = Call("init", NoKey, NoKey, "ok")
  /\ AuxInit

NextShared ==
  \/ AddBook(SnapBooks)
  \/ RemoveBook(SnapIsbnInputs)
  \/ ApiAddBook(SnapIsbnInputs)
  \/ ApiDeleteBook(SnapIsbnInputs)
  \/ ApiGetBook(SnapIsbnInputs)

SpecShared == InitShared /\ [][NextShared]_vars

\* C1: Book.borrow_book on a borrowed book fails and leaves is_borrowed
\* true, otherwise it sets is_borrowed; Book.return_book on a book that is
\* not borrowed fails and leaves it false, otherwise it clears is_borrowed;
\* so a borrow after a successful borrow fails, a return after a successful
\* borrow succeeds and a return after a successful return fails.
C1_BorrowReturnToggle ==
  [][ /\ last'.op = "Book.borrow_book" =>
           IF book.is_borrowed = TRUE
           THEN last'.exc = "AlreadyBorrowed" /\ book' = book
           ELSE last'.exc = "ok" /\ book'.is_borrowed = TRUE
                /\ \A k \in DOMAIN book \ {"is_borrowed"} : book'[k] = book[k]
      /\ last'.op = "Book.return_book" =>
           IF book.is_borrowed = FALSE
           THEN last'.exc = "NotBorrowed" /\ book' = book
           ELSE last'.exc = "ok" /\ book'.is_borrowed = FALSE
                /\ \A k \in DOMAIN book \ {"is_borrowed"} : book'[k] = book[k]
      /\ (last.op = "Book.borrow_book" /\ last.exc = "ok"
           /\ last'.op = "Book.borrow_book") => last'.exc = "AlreadyBorrowed"
      /\ (last.op = "Book.borrow_book" /\ last.exc = "ok"
           /\ last'.op = "Book.return_book") => last'.exc = "ok"
      /\ (last.op = "Book.return_book" /\ last.exc = "ok"
           /\ last'.op = "Book.return_book") => last'.exc = "NotBorrowed"
    ]_vars

\* a second borrow_book on an e-book has just failed
C1_Witness ==
  /\ last.op = "Book.borrow_book"
  /\ last.exc = "AlreadyBorrowed"
  /\ book.cls = "EBook"
  /\ book.is_borrowed = TRUE

\* C2: no two books of a Library share an isbn and no two members of a
\* MemberManager share a member_id, whatever adds and removes were called.
C2_UniqueKeys == DistinctIsbns(books) /\ DistinctMemberIds(members)

\* a full catalogue has just refused a second record for one of its isbns
C2_Witness ==
  /\ Len(books) = MaxBooks
  /\ Len(members) >= 1
  /\ last.op = "add_book"
  /\ last.exc = "DuplicateKey"

\* C3: add of a record whose key is already stored fails with the
\* duplicate-key error and leaves the list and the backing file as they were.
C3_DuplicateAddChangesNothing ==
  [][ /\ (last'.op = "add_book"
           /\ \E i \in 1..Len(books) : books[i].isbn = last'.isbn)
          => (last'.exc = "DuplicateKey" /\ books' = books /\ libFile' = libFile)
      /\ (last'.op = "add_member"
           /\ \E i \in 1..Len(members) : members[i].member_id = last'.member_id)
          => (last'.exc = "DuplicateKey" /\ members' = members
              /\ memFile' = memFile)
    ]_vars

\* an add for a stored isbn has just been refused
C3_Witness ==
  /\ last.op = "add_book"
  /\ last.exc = "DuplicateKey"
  /\ \E i \in 1..Len(books) : books[i].isbn = last.isbn
  /\ libFile = save_books(books)

\* C4: remove of a key that no record has fails with the not-found error
\* and changes nothing; remove of a stored key removes that one record,
\* keeps the others in order, and a find for the key right afterwards
\* returns None.
C4_RemoveThenFindAbsent ==
  [][ /\ last'.op = "remove_book" =>
           IF ~\E i \in 1..Len(books) : books[i].isbn = last'.isbn
           THEN last'.exc = "NotFound" /\ books' = books /\ libFile' = libFile
           ELSE /\ last'.exc = "ok"
                /\ \E i \in 1..Len(books) :
                      books[i].isbn = last'.isbn /\ books' = RemoveAt(books, i)
                /\ find_book(books', last'.isbn) = 0
      /\ last'.op = "remove_member" =>
           IF ~\E i \in 1..Len(members) : members[i].member_id = last'.member_id
           THEN last'.exc = "NotFound" /\ members' = members
                /\ memFile' = memFile
           ELSE /\ last'.exc = "ok"
                /\ \E i \in 1..Len(members) :
                      members[i].member_id = last'.member_id
                      /\ members' = RemoveAt(members, i)
                /\ find_member(members', last'.member_id) = 0
    ]_vars

\* the flow's member and book: the records stored under what was typed,
\* stripped (position 0 when there is none)
FlowMember(ms, c) == FirstMemberId(ms, strip(c.member_id))
FlowBook(bs, c) == FirstIsbn(bs, strip(c.isbn))

FileHasBook(f, isbn, is_borrowed) ==
  /\ f.kind = "array"
  /\ \E k \in 1..Len(f.items) :
       f.items[k].isbn = isbn /\ f.items[k].is_borrowed = is_borrowed

FileHasLoan(f, member_id, isbn) ==
  /\ f.kind = "array"
  /\ \E k \in 1..Len(f.items) :
       f.items[k].member_id = member_id /\ In(isbn, f.items[k].borrowed_books)

FileHasMemberWithoutLoan(f, member_id, isbn) ==
  /\ f.kind = "array"
  /\ \E k \in 1..Len(f.items) :
       f.items[k].member_id = member_id /\ ~In(isbn, f.items[k].borrowed_books)

\* C5: the borrow flow for a stored member and a stored book that is not on
\* loan and not in the member's borrowed_books succeeds; the book is then
\* borrowed, the isbn is in the member's borrowed_books, and library.json
\* and members.json hold that state.
C5_BorrowSucceedsAndPersists ==
  [][ last'.op = "borrow_book_flow" =>
        LET j == FlowMember(members, last')
            i == FlowBook(books, last')
            isbn == strip(last'.isbn)
        IN (j /= 0 /\ i /= 0 /\ books[i].is_borrowed = FALSE
            /\ ~In(isbn, members[j].borrowed_books))
           => /\ last'.exc = "ok"
              /\ books' = [books EXCEPT ![i].is_borrowed = TRUE]
              /\ members' = [members EXCEPT ![j].borrowed_books =
                                              Append(@, isbn)]
              /\ FileHasBook(libFile', isbn, TRUE)
              /\ FileHasLoan(memFile', members[j].member_id, isbn)
              /\ load_books(libFile') = books'
              /\ load_members(memFile') = members'
    ]_vars

\* a borrow typed with a leading blank has just succeeded
C5_Witness ==
  /\ last.op = "borrow_book_flow"
  /\ last.exc = "ok"
  /\ last.isbn = <<SP, "a">>
  /\ books[FlowBook(books, last)].is_borrowed = TRUE
  /\ In(<<"a">>, members[FlowMember(members, last)].borrowed_books)
  /\ FileHasBook(libFile, <<"a">>, TRUE)
  /\ FileHasLoan(memFile, strip(last.member_id), <<"a">>)

\* C6: the borrow flow for a stored member and a book already on loan
\* fails with the already-borrowed error and changes no book, no member
\* and neither file.
C6_BorrowOfBorrowedChangesNothing ==
  [][ last'.op = "borrow_book_flow" =>
        LET j == FlowMember(members, last')
            i == FlowBook(books, last')
        IN (j /= 0 /\ i /= 0 /\ books[i].is_borrowed = TRUE)
           => (last'.exc = "AlreadyBorrowed" /\ UNCHANGED stores)
    ]_vars

\* a member has just been refused a book that another member holds
C6_Witness ==
  /\ last.op = "borrow_book_flow"
  /\ last.exc = "AlreadyBorrowed"
  /\ ~In(strip(last.isbn), members[FlowMember(members, last)].borrowed_books)
  /\ \E k \in 1..Len(members) : In(strip(last.isbn), members[k].borrowed_books)

\* C7: the borrow and return flows for a member_id that no member has fail
\* with member-not-found, and for a stored member and an isbn that no book
\* has with book-not-found; either way nothing is changed.
C7_NotFoundChangesNothing ==
  [][ last'.op \in {"borrow_book_flow", "return_book_flow"} =>
        LET j == FlowMember(members, last')
            i == FlowBook(books, last')
        IN /\ j = 0 => (last'.exc = "MemberNotFound" /\ UNCHANGED stores)
           /\ (j /= 0 /\ i = 0)
                => (last'.exc = "BookNotFound" /\ UNCHANGED stores)
    ]_vars

\* a return for an unknown member and an unknown book has just reported the
\* member, with a book on loan in the catalogue
C7_Witness ==
  /\ last.op = "return_book_flow"
  /\ last.exc = "MemberNotFound"
  /\ FlowBook(books, last) = 0
  /\ \E k \in 1..Len(books) : books[k].is_borrowed = TRUE

\* C8: no rollback.  In the borrow flow, when the book was not on loan but
\* the member already lists the isbn, the error is reported, the book stays
\* borrowed in memory and nothing is saved; in the return flow, when the
\* book was on loan but the member does not list the isbn, the error is
\* reported, the book stays not borrowed in memory and nothing is saved.
C8_NoRollback ==
  [][ LET j == FlowMember(members, last')
          i == FlowBook(books, last')
          isbn == strip(last'.isbn)
      IN /\ (last'.op = "borrow_book_flow" /\ j /= 0 /\ i /= 0
              /\ books[i].is_borrowed = FALSE
              /\ In(isbn, members[j].borrowed_books))
             => /\ last'.exc = "DuplicateBorrow"
                /\ books' = [books EXCEPT ![i].is_borrowed = TRUE]
                /\ UNCHANGED <<members, libFile, memFile>>
         /\ (last'.op = "return_book_flow" /\ j /= 0 /\ i /= 0
              /\ books[i].is_borrowed = TRUE
              /\ ~In(isbn, members[j].borrowed_books))
             => /\ last'.exc = "NotBorrowedByMember"
                /\ books' = [books EXCEPT ![i].is_borrowed = FALSE]
                /\ UNCHANGED <<members, libFile, memFile>>
    ]_vars

\* the member has just refused a borrow: the book is borrowed in memory
\* and not borrowed in library.json
C8_Witness ==
  /\ last.op = "borrow_book_flow"
  /\ last.exc = "DuplicateBorrow"
  /\ books[FlowBook(books, last)].is_borrowed = TRUE
  /\ FileHasBook(libFile, strip(last.isbn), FALSE)

\* C9: the return flow for a stored member that lists the isbn and a
\* stored book on loan succeeds, clears is_borrowed, takes the isbn off the
\* member's borrowed_books and saves both stores; for a stored member and a
\* book that is not on loan it fails with the not-borrowed error and
\* changes nothing.
C9_ReturnSymmetric ==
  [][ last'.op = "return_book_flow" =>
        LET j == FlowMember(members, last')
            i == FlowBook(books, last')
            isbn == strip(last'.isbn)
        IN /\ (j /= 0 /\ i /= 0 /\ books[i].is_borrowed = TRUE
                /\ In(isbn, members[j].borrowed_books))
               => /\ last'.exc = "ok"
                  /\ books' = [books EXCEPT ![i].is_borrowed = FALSE]
                  /\ members' = [members EXCEPT ![j].borrowed_books =
                                     SelectSeq(@, LAMBDA x : x /= isbn)]
                  /\ FileHasBook(libFile', isbn, FALSE)
                  /\ FileHasMemberWithoutLoan(memFile', members[j].member_id,
                                              isbn)
                  /\ load_books(libFile') = books'
                  /\ load_members(memFile') = members'
           /\ (j /= 0 /\ i /= 0 /\ books[i].is_borrowed = FALSE)
               => (last'.exc = "NotBorrowed" /\ UNCHANGED stores)
    ]_vars

\* a return has just succeeded for a member who keeps another loan
C9_Witness ==
  /\ last.op = "return_book_flow"
  /\ last.exc = "ok"
  /\ books[FlowBook(books, last)].is_borrowed = FALSE
  /\ members[FlowMember(members, last)].borrowed_books /= <<>>
  /\ FileHasBook(libFile, strip(last.isbn), FALSE)

\* C10: the CLI remove-book flow and the API delete handler refuse to
\* delete a book that is on loan and leave the catalogue as it was.
C10_NoDeleteWhileBorrowed ==
  [][ /\ last'.op = "remove_book_flow" =>
           LET i == FlowBook(books, last')
           IN (i /= 0 /\ books[i].is_borrowed = TRUE)
              => (last'.exc /= "ok" /\ books' = books /\ libFile' = libFile)
      /\ last'.op = "delete_book" =>
           LET i == FlowBook(library, last')
           IN (i /= 0 /\ library[i].is_borrowed = TRUE)
              => (last'.exc /= "200" /\ library' = library
                  /\ libFile' = libFile)
    ]_vars

\* C11: save publishes by the rename alone.  In every step the primary
\* file of either store stays as it was or, at the rename, becomes the
\* complete array of the records in memory, which the temp file held; it
\* never holds a truncated text; and when a save has completed its temp
\* file is gone.
C11_AtomicPublish ==
  [][ /\ \/ libFile' = libFile
          \/ /\ pc = At("lib", "replace")
             /\ libTmp = save_books(books)
             /\ libFile' = save_books(books)
      /\ \/ memFile' = memFile
          \/ /\ pc = At("mgr", "replace")
             /\ memTmp = save_members(members)
             /\ memFile' = save_members(members)
      /\ libFile'.kind \in {"absent", "array"}
      /\ memFile'.kind \in {"absent", "array"}
      /\ (pc = At("lib", "replace") /\ last'.op = last.op /\ last'.exc = "ok")
           => libTmp' = Absent
      /\ (pc = At("mgr", "replace") /\ last'.op = last.op /\ last'.exc = "ok")
           => memTmp' = Absent
    ]_vars

\* in the middle of write_text: the temp file is truncated and library.json
\* still holds the complete previous array
C11_Witness ==
  /\ pc = At("lib", "writing")
  /\ libTmp.kind = "partial"
  /\ libFile.kind = "array"
  /\ Len(libFile.items) = 1
  /\ Len(books) = 2

\* C12: when add_book or add_member is back with the caller, returned or
\* raised, the record it appended to the list is in the backing file.
C12_AddIsDurable ==
  /\ (pc = Idle /\ last.op = "add_book" /\ last.exc /= "DuplicateKey")
       => \A i \in 1..Len(books) :
            books[i].isbn = last.isbn
            => /\ libFile.kind = "array"
               /\ \E k \in 1..Len(libFile.items) :
                    libFile.items[k] = Book_to_dict(books[i])
  /\ (pc = Idle /\ last.op = "add_member" /\ last.exc /= "DuplicateKey")
       => \A i \in 1..Len(members) :
            members[i].member_id = last.member_id
            => /\ memFile.kind = "array"
               /\ \E k \in 1..Len(memFile.items) :
                    memFile.items[k] = Member_to_dict(members[i])

\* C13: a store constructed on the file that a successful add, remove,
\* borrow or return has just saved holds the same records in the same
\* order, each of the same class and with the same field values.
C13_ReloadReproducesStore ==
  [][ (last'.op = "run_cli_interface" /\ last.exc = "ok") =>
        /\ last.op \in {"add_book", "remove_book", "borrow_book_flow",
                        "return_book_flow"}
             => books' = books
        /\ last.op \in {"add_member", "remove_member", "borrow_book_flow",
                        "return_book_flow"}
             => members' = members
    ]_vars

\* both stores were constructed anew with an audio book on loan after a
\* plain book in the catalogue
C13_Witness ==
  /\ last.op = "run_cli_interface"
  /\ Len(books) = 2
  /\ books[1].cls = "Book"
  /\ books[2].cls = "AudioBook"
  /\ books[2].is_borrowed = TRUE
  /\ books[2].duration = 5
  /\ Len(members) = 1
  /\ members[1].borrowed_books = <<books[2].isbn>>
  /\ libFile = save_books(books)

\* C14: constructing a store never raises; on an absent file, on a text
\* that is not JSON and on JSON that is not an array the list is empty.
C14_LoadNeverRaises ==
  [][ /\ last'.op = "Library" =>
           /\ last'.exc = "ok"
           /\ libFile.kind /= "array" => books' = <<>>
      /\ last'.op = "MemberManager" =>
           /\ last'.exc = "ok"
           /\ memFile.kind /= "array" => members' = <<>>
    ]_vars

\* a Library has just been constructed on a JSON object
C14_Witness ==
  /\ last.op = "Library"
  /\ last.exc = "ok"
  /\ libFile = JsonObject
  /\ books = <<>>

\* the paddings of a key with surrounding whitespace
Pad(k) == {k, <<SP>> \o k, k \o <<SP>>, <<SP>> \o k \o <<SP>>}

\* C15: in both stores find of any whitespace padding of a stored key
\* returns the record stored under that key.
C15_FindTrimsInBothStores ==
  /\ \A i \in 1..Len(books) : \A p \in Pad(books[i].isbn) :
        find_book(books, p) = FirstIsbn(books, books[i].isbn)
  /\ \A i \in 1..Len(members) : \A p \in Pad(members[i].member_id) :
        find_member(members, p) = FirstMemberId(members, members[i].member_id)

\* C16: from_dict right after to_dict gives back the same object: same
\* class and same value in every field, for books and for members.
C16_RoundTripIsIdentity ==
  [][ /\ (last.op = "Book.to_dict" /\ last'.op = "Book.from_dict") =>
           /\ last'.exc = "ok"
           /\ book' = book
      /\ (last.op = "Member.to_dict" /\ last'.op = "Member.from_dict") =>
           /\ last'.exc = "ok"
           /\ member' = member
    ]_vars

\* a borrowed AudioBook of 5 minutes has come back from its own dict
C16_Witness ==
  /\ last.op = "Book.from_dict"
  /\ last.exc = "ok"
  /\ book = Borrowed(AudioBook("t", "x", <<"b">>, 5))
  /\ item = Without(Book_to_dict(book), "_cls")

\* C17: Book.from_dict of a dict with title, author and isbn whose tag is
\* missing or names no class gives a Book, whatever other keys it has.
C17_UnknownTagGivesPlain ==
  [][ ( /\ last'.op = "Book.from_dict"
        /\ BookRequired \subseteq DOMAIN item
        /\ DOMAIN item \subseteq BookFields \cup {"_cls", "file_format", "duration"}
        /\ ("_cls" \in DOMAIN item => item["_cls"] \notin {"EBook", "AudioBook"}) ) =>
        /\ last'.exc = "ok"
        /\ book'.cls = "Book"
        /\ book'.is_borrowed = (IF "is_borrowed" \in DOMAIN item
                                 THEN item["is_borrowed"] ELSE FALSE)
    ]_vars

NoDuplicates(l) == \A i, j \in 1..Len(l) : l[i] = l[j] => i = j

\* the elements of l other than x, in the order of l
Others(l, x) ==
  LET keep(y) == y /= x
  IN SelectSeq(l, keep)

\* C18: a member's borrowed_books never holds an isbn twice; borrow_book of
\* an isbn in the list fails and changes nothing, otherwise it puts the isbn
\* at the end; return_book of an isbn not in the list fails and changes
\* nothing, otherwise the other isbns stay in their order.
C18_BorrowedBooksList ==
  [][ /\ NoDuplicates(member'.borrowed_books)
      /\ last'.op = "Member.borrow_book" =>
           IF In(last'.isbn, member.borrowed_books)
           THEN last'.exc = "DuplicateBorrow" /\ member' = member
           ELSE /\ last'.exc = "ok"
                /\ member' = [member EXCEPT !.borrowed_books =
                                 member.borrowed_books \o <<last'.isbn>>]
      /\ last'.op = "Member.return_book" =>
           IF ~In(last'.isbn, member.borrowed_books)
           THEN last'.exc = "NotBorrowedByMember" /\ member' = member
           ELSE /\ last'.exc = "ok"
                /\ member' = [member EXCEPT !.borrowed_books =
                                 Others(member.borrowed_books, last'.isbn)]
    ]_vars

\* the isbn borrowed second of three has just been returned
C18_Witness ==
  /\ last.op = "Member.return_book"
  /\ last.exc = "ok"
  /\ last.isbn = <<"b">>
  /\ member.borrowed_books = <<<<"a">>, <<SP, "a">>>>

\* C19: list_books / list_members give the records in the order of the
\* store's list, which is the order of the successful adds of the records
\* still there (an add puts its record last, a remove keeps the order of
\* the others); whatever the caller does to the list it was given, later
\* list and find calls on the store return what they returned before.
C19_ListIsSnapshot ==
  [][ /\ (last'.op = "add_book" /\ last'.exc = "ok") =>
           /\ SubSeq(books', 1, Len(books)) = books
           /\ Len(books') = Len(books) + 1
           /\ books'[Len(books')].isbn = last'.isbn
      /\ (last'.op = "remove_book" /\ last'.exc = "ok") =>
           LET keep(b) == b.isbn /= last'.isbn
           IN books' = SelectSeq(books, keep)
      /\ (last'.op = "add_member" /\ last'.exc = "ok") =>
           /\ SubSeq(members', 1, Len(members)) = members
           /\ Len(members') = Len(members) + 1
           /\ members'[Len(members')].member_id = last'.member_id
      /\ (last'.op = "remove_member" /\ last'.exc = "ok") =>
           LET keep(m) == m.member_id /= last'.member_id
           IN members' = SelectSeq(members, keep)
      /\ last'.op = "list_books" => listed'.items = books /\ books' = books
      /\ last'.op = "list_members" =>
           listed'.items = members /\ members' = members
      /\ last'.op \in {"caller.append", "caller.remove", "caller.reverse"} =>
           /\ list_books(books') = list_books(books)
           /\ list_members(members') = list_members(members)
           /\ \A isbn \in PaddedIsbns :
                 find_book(books', isbn) = find_book(books, isbn)
           /\ \A member_id \in PaddedMemberIds :
                 find_member(members', member_id) = find_member(members, member_id)
    ]_vars

\* the caller has reversed the list of a two-book catalogue, and the
\* catalogue still has its own order
C19_Witness ==
  /\ last.op = "caller.reverse"
  /\ listed.of = "books"
  /\ Len(books) = 2
  /\ listed.items = <<books[2], books[1]>>

\* C20: add_book_from_isbn always returns: True when it added the book,
\* False when it did not, and then books and the file are as before.
C20_ReturnsTrueOrFalse ==
  [][ last'.op = "add_book_from_isbn" =>
        /\ last'.exc = "ok"
        /\ last'.ret \in {"True", "False"}
        /\ last'.ret = "True" =>
              /\ Len(books') = Len(books) + 1
              /\ books'[Len(books')].isbn = last'.isbn
              /\ libFile' = save_books(books')
        /\ last'.ret = "False" => books' = books /\ libFile' = libFile
    ]_vars

\* C21: DELETE /books/{isbn} removes the book whenever find_book finds one
\* for that isbn and it is not borrowed, answering 200, and a GET of the
\* same isbn then answers 404; when find_book finds none it answers 404
\* and changes nothing.
C21_DeleteRemovesWhatLookupFinds ==
  [][ last'.op = "delete_book" =>
        LET i == find_book(library, last'.isbn)
        IN IF i = 0
           THEN /\ last'.exc = "404"
                /\ library' = library
                /\ libFile' = libFile
           ELSE library[i].is_borrowed = FALSE =>
                  /\ last'.exc = "200"
                  /\ get_book(library', last'.isbn) = "404"
    ]_vars

\* the positions of the members that have isbn in borrowed_books
Holders(ms, isbn) == {j \in 1..Len(ms) : In(isbn, ms[j].borrowed_books)}

\* C22: a book of the catalogue is borrowed exactly when one member, and
\* only one, has its isbn in borrowed_books.
C22_CrossStoreConsistency ==
  \A i \in 1..Len(books) :
    books[i].is_borrowed = TRUE <=>
      Cardinality(Holders(members, books[i].isbn)) = 1

\* C23: no isbn is in the borrowed_books of two members at once.
C23_ExclusiveLending ==
  \A isbn \in Isbns : Cardinality(Holders(members, isbn)) <= 1

\* C24: at every point of a borrow or return flow the two files together
\* never have an isbn in a member's borrowed_books while the book of that
\* isbn is recorded as not borrowed.
C24_FilesNeverLoanAFreeBook ==
  \A k \in 1..Len(memFile.items) : \A j \in 1..Len(libFile.items) :
    In(libFile.items[j].isbn, memFile.items[k].borrowed_books) =>
      libFile.items[j].is_borrowed = TRUE

\* C25: between operations each file holds exactly the records of its
\* store's list: constructing the store from the file would give the list.
C25_MemoryEqualsDisk ==
  /\ books = load_books(libFile)
  /\ members = load_members(memFile)

\* C26: right after a successful add, find of the added record's key
\* returns that record, in both stores.
C26_AddThenFind ==
  [][ /\ (last'.op = "add_book" /\ last'.exc = "ok") =>
           find_book(books', last'.isbn) = Len(books')
      /\ (last'.op = "add_member" /\ last'.exc = "ok") =>
           find_member(members', last'.member_id) = Len(members')
    ]_vars

\* a JSON array with an element that from_dict raises on
BadBookArray(f) ==
  /\ f.kind = "array"
  /\ \E k \in 1..Len(f.items) : Book_from_dict(f.items[k]).exc /= "ok"

BadMemberArray(f) ==
  /\ f.kind = "array"
  /\ \E k \in 1..Len(f.items) : Member_from_dict(f.items[k]).exc /= "ok"

\* every element of file f is an element of file g
KeepsItems(f, g) ==
  \A k \in 1..Len(f.items) : \E n \in 1..Len(g.items) : g.items[n] = f.items[k]

\* C27: constructing a store on an array with an element that cannot be
\* made a record gives an empty list and leaves the file as it was, and
\* the save of the next add or remove keeps the elements of that file.
C27_LoadAllOrNothingKeepsFile ==
  [][ /\ last'.op = "run_cli_interface" =>
           /\ libFile' = libFile /\ memFile' = memFile
           /\ BadBookArray(libFile) => books' = <<>>
           /\ BadMemberArray(memFile) => members' = <<>>
      /\ ( /\ last'.op \in {"add_book", "remove_book"}
            /\ last'.exc = "ok"
            /\ BadBookArray(libFile) ) => KeepsItems(libFile, libFile')
      /\ ( /\ last'.op \in {"add_member", "remove_member"}
            /\ last'.exc = "ok"
            /\ BadMemberArray(memFile) ) => KeepsItems(memFile, memFile')
    ]_vars

\* C28: Book.from_dict and Member.from_dict leave the dict they are given
\* as it was, so a second from_dict of the same dict gives an equal object.
C28_FromDictLeavesInput ==
  [][ /\ last'.op \in {"Book.from_dict", "Member.from_dict"} => item' = item
      /\ ( /\ last.op = "Book.from_dict" /\ last.exc = "ok"
            /\ last'.op = "Book.from_dict" ) =>
           last'.exc = "ok" /\ book' = book
      /\ ( /\ last.op = "Member.from_dict" /\ last.exc = "ok"
            /\ last'.op = "Member.from_dict" ) =>
           last'.exc = "ok" /\ member' = member
    ]_vars

\* C29: on every file that load accepts no two loaded records share a key,
\* and find of a key right after its successful remove returns None.
C29_UniqueKeysAfterLoad ==
  [][ /\ DistinctIsbns(books')
      /\ DistinctMemberIds(members')
      /\ (last'.op = "remove_book" /\ last'.exc = "ok") =>
           find_book(books', last'.isbn) = 0
      /\ (last'.op = "remove_member" /\ last'.exc = "ok") =>
           find_member(members', last'.member_id) = 0
    ]_vars

\* every element of file f with an isbn other than the given one is an
\* element of file g
KeepsOtherItems(f, g, isbn) ==
  \A k \in 1..Len(f.items) :
    f.items[k].isbn /= isbn => \E n \in 1..Len(g.items) : g.items[n] = f.items[k]

\* C30: with calls that never overlap, a successful add or remove through
\* either instance leaves in the file every record that was there, apart
\* from the one a remove names.
C30_SharedFileKeepsRecords ==
  [][ /\ (last'.op = "add_book" /\ last'.exc = "ok") =>
           KeepsItems(libFile, libFile')
      /\ (last'.op = "api_add_book" /\ last'.exc = "200") =>
           KeepsItems(libFile, libFile')
      /\ (last'.op = "remove_book" /\ last'.exc = "ok") =>
           KeepsOtherItems(libFile, libFile', last'.isbn)
      /\ (last'.op = "delete_book" /\ last'.exc = "200") =>
           KeepsOtherItems(libFile, libFile', last'.isbn)
    ]_vars

====
